---- MODULE Spec2Model ----
(***************************************************************************)
(* A model of the example FastMCP server                                   *)
(* (examples/fastmcp-python-basic/fastmcp_python_basic/server.py).         *)
(*                                                                         *)
(* The server exposes tools that the host framework calls one at a time.   *)
(* calculator and system_info are single synchronous computations;         *)
(* list_files reads the filesystem in several library calls (exists,       *)
(* is_dir, glob, is_file, is_dir, stat), each of which observes the        *)
(* filesystem as it is at that moment.                                     *)
(*                                                                         *)
(* Abstractions:                                                           *)
(*  - a float is an exact rational [n, d] in lowest terms (d > 0); float   *)
(*    rounding, infinities and NaN are left out; dividing by zero raises   *)
(*    ZeroDivisionError as Python's float division does;                   *)
(*  - a path is the sequence of its components, a name the sequence of its *)
(*    characters, a glob pattern the sequence of its "/"-separated         *)
(*    components (the empty pattern is << >>, an absolute pattern starts   *)
(*    with an empty component);                                            *)
(*  - a message is the tuple of its parts: "text" is <<"text">> and the     *)
(*    f-string "text: {x}" is <<"text: ", x>>; str(e) is such a tuple too;  *)
(*  - pathlib behaves as CPython 3.11's does.                              *)
(***************************************************************************)
EXTENDS Integers, Sequences, FiniteSets, TLC

VARIABLES
    pc,        \* position of the server: "idle", a step of list_files, "done", "escaped"
    tool,      \* the tool of the current invocation
    request,   \* the validated request of the current invocation
    response,  \* the payload the tool returned
    pending,   \* list_files: the paths glob yielded that the loop has not visited
    files,     \* list_files: the local list of entries built so far
    fs,        \* the filesystem: existing path -> [kind, size, mtime]
    environ    \* os.environ: variable name -> value

vars == <<pc, tool, request, response, pending, files, fs, environ>>

\* Bounds of the enumerated operands: numerators -MaxNum..MaxNum, denominators 1..MaxDen.
MaxNum == 3
MaxDen == 2

NoRequest == [none |-> TRUE]
NoResponse == [none |-> TRUE]

(***************************************************************************)
(* Floats as exact rationals.                                              *)
(***************************************************************************)
Abs(x) == IF x < 0 THEN -x ELSE x

RECURSIVE Gcd(_, _)
Gcd(x, y) == IF y = 0 THEN x ELSE Gcd(y, x % y)

\* The float n/d (d # 0), in lowest terms with a positive denominator.
Float(n, d) ==
    LET g == Gcd(Abs(n), Abs(d))
        s == IF d < 0 THEN -1 ELSE 1
    IN  [n |-> s * (n \div g), d |-> s * (d \div g)]

Floats == {Float(n, d) : n \in -MaxNum..MaxNum, d \in 1..MaxDen}

\* request.a + request.b
FAdd(a, b) == Float(a.n * b.d + b.n * a.d, a.d * b.d)

\* A plausible slip in the subtraction: the operands swapped.
FSubSwapped(a, b) == Float(b.n * a.d - a.n * b.d, a.d * b.d)

\* request.a - request.b
FSub(a, b) == Float(a.n * b.d - b.n * a.d, a.d * b.d)

\* request.a * request.b
FMul(a, b) == Float(a.n * b.n, a.d * b.d)

\* request.a / request.b: raises ZeroDivisionError when b is zero.
FDiv(a, b) ==
    IF b.n = 0
    THEN [raised |-> "ZeroDivisionError", detail |-> <<"float division by zero">>]
    ELSE [value |-> Float(a.n * b.d, a.d * b.n)]

\* A guard that never sees a zero divisor (the check left out).
NeverZero(b) == FALSE

\* request.b == 0
IsZero(b) == b.n = 0

(***************************************************************************)
(* calculator                                                              *)
(***************************************************************************)
Lower(s) ==
    CASE s = "ADD" -> "add"
      [] OTHER -> s

\* A comparison that ignores case.
OpIsIgnoreCase(op, name) == Lower(op) = name

\* request.operation == "<name>"
OpIs(op, name) == op = name

\* The operation strings enumerated: the four supported ones and some that are not.
Operations == {"add", "subtract", "multiply", "divide", "mod", "ADD", ""}

CalculationRequests == [operation : Operations, a : Floats, b : Floats]

Inputs(req) == [a |-> req.a, b |-> req.b]

\* A division-by-zero payload that forgets the inputs.
DivisionByZeroBare(req) ==
    [error |-> <<"Division by zero is not allowed">>, operation |-> req.operation]

DivisionByZero(req) ==
    [error |-> <<"Division by zero is not allowed">>,
     operation |-> req.operation,
     inputs |-> Inputs(req)]

UnknownOperation(req) ==
    [error |-> <<"Unknown operation: ", req.operation>>,
     supported_operations |-> <<"add", "subtract", "multiply", "divide">>]

CalculatorSuccess(req, result) ==
    [result |-> result, operation |-> req.operation, inputs |-> Inputs(req)]

\* The except clause of calculator.
CalculationError(req, detail) ==
    [error |-> <<"Calculation error: ", detail>>,
     operation |-> req.operation,
     inputs |-> Inputs(req)]

\* The try body: [return |-> payload] or [raised |-> class, detail |-> str(e)].
CalculatorBody(req) ==
    IF OpIs(req.operation, "add")
    THEN [return |-> CalculatorSuccess(req, FAdd(req.a, req.b))]
    ELSE IF OpIs(req.operation, "subtract")
    THEN [return |-> CalculatorSuccess(req, FSub(req.a, req.b))]
    ELSE IF OpIs(req.operation, "multiply")
    THEN [return |-> CalculatorSuccess(req, FMul(req.a, req.b))]
    ELSE IF OpIs(req.operation, "divide")
    THEN IF IsZero(req.b)
         THEN [return |-> DivisionByZero(req)]
         ELSE LET q == FDiv(req.a, req.b)
              IN  IF "raised" \in DOMAIN q
                  THEN q
                  ELSE [return |-> CalculatorSuccess(req, q.value)]
    ELSE [return |-> UnknownOperation(req)]

calculator(req) ==
    LET r == CalculatorBody(req)
    IN  IF "raised" \in DOMAIN r
        THEN CalculationError(req, r.detail)
        ELSE r.return

Calculator ==
    /\ pc = "idle"
    /\ \E req \in CalculationRequests :
        /\ request' = req
        /\ response' = calculator(req)
    /\ tool' = "calculator"
    /\ pc' = "done"
    /\ UNCHANGED <<pending, files, fs, environ>>

(***************************************************************************)
(* system_info                                                             *)
(***************************************************************************)
\* A list of variables that lets a secret through.
leaky_vars == <<"PATH", "HOME", "USER", "SHELL", "LANG", "PWD", "API_KEY">>

safe_vars == <<"PATH", "HOME", "USER", "SHELL", "LANG", "PWD">>

\* for var in vars: if var in os.environ: env_vars[var] = os.environ[var]
RECURSIVE CollectEnv(_, _)
CollectEnv(vs, env_vars) ==
    IF vs = << >>
    THEN env_vars
    ELSE LET var == Head(vs)
         IN  IF var \in DOMAIN environ
             THEN CollectEnv(Tail(vs),
                      [v \in DOMAIN env_vars \cup {var} |->
                          IF v = var THEN environ[var] ELSE env_vars[v]])
             ELSE CollectEnv(Tail(vs), env_vars)

system_info ==
    [timestamp |-> "datetime.now().isoformat()",
     python_version |-> "sys.version",
     platform |-> "platform.platform()",
     working_directory |-> "os.getcwd()",
     environment_variables |-> CollectEnv(safe_vars, << >>)]

SystemInfo ==
    /\ pc = "idle"
    /\ request' = NoRequest
    /\ response' = system_info
    /\ tool' = "system_info"
    /\ pc' = "done"
    /\ UNCHANGED <<pending, files, fs, environ>>

\* The process environments enumerated: with and without allow-listed variables,
\* with and without others.
Environments ==
    { << >>,
      [v \in {"API_KEY", "DB_PASSWORD"} |-> <<"secret", v>>],
      [v \in {"PATH", "HOME", "API_KEY"} |-> <<"value", v>>],
      [v \in {"PATH", "HOME", "USER", "SHELL", "LANG", "PWD", "DB_PASSWORD", "TERM"}
          |-> <<"value", v>>] }

(***************************************************************************)
(* The filesystem and pathlib (CPython 3.11).                              *)
(***************************************************************************)
A == <<"a">>
B == <<"b">>
AB == <<"a", "b">>

\* The tree the server starts in, relative to its working directory << >>:
\*   a (file)   b/ (directory)   b/a (file)   b/ab/ (directory)
\*   b/ab/a (file)   b/b (a FIFO: neither a regular file nor a directory)
InitialTree ==
    (<<A>> :> [kind |-> "file", size |-> 3, mtime |-> 10])
    @@ (<<B>> :> [kind |-> "dir", size |-> 0, mtime |-> 11])
    @@ (<<B, A>> :> [kind |-> "file", size |-> 5, mtime |-> 12])
    @@ (<<B, AB>> :> [kind |-> "dir", size |-> 0, mtime |-> 13])
    @@ (<<B, AB, A>> :> [kind |-> "file", size |-> 7, mtime |-> 14])
    @@ (<<B, B>> :> [kind |-> "other", size |-> 0, mtime |-> 15])

IsPrefix(p, q) == Len(p) <= Len(q) /\ SubSeq(q, 1, Len(p)) = p

\* PurePath.name: the last component, empty for the path "."
basename(p) == IF p = << >> THEN << >> ELSE p[Len(p)]

Kind(p) ==
    IF p = << >> THEN "dir"
    ELSE IF p \in DOMAIN fs THEN fs[p].kind
    ELSE "none"

\* An existence check that is always satisfied (the check left out).
exists_always(p) == TRUE

\* Path.exists()
exists(p) == Kind(p) # "none"

\* Path.is_dir(): False for a missing path
is_dir(p) == Kind(p) = "dir"

\* Path.is_file(): False for a missing path
is_file(p) == Kind(p) = "file"

\* os.scandir(p): the direct entries of directory p
Children(p) == {q \in DOMAIN fs : Len(q) = Len(p) + 1 /\ IsPrefix(p, q)}

\* A matcher whose "?" also matches no character.
RECURSIVE fnmatch_lax(_, _)
fnmatch_lax(name, pat) ==
    IF pat = << >> THEN name = << >>
    ELSE IF Head(pat) = "*"
    THEN fnmatch_lax(name, Tail(pat)) \/ (name # << >> /\ fnmatch_lax(Tail(name), pat))
    ELSE IF Head(pat) = "?"
    THEN fnmatch_lax(name, Tail(pat)) \/ (name # << >> /\ fnmatch_lax(Tail(name), Tail(pat)))
    ELSE name # << >> /\ Head(name) = Head(pat) /\ fnmatch_lax(Tail(name), Tail(pat))

\* fnmatch: "*" matches any run of characters, "?" exactly one, others themselves.
RECURSIVE fnmatch(_, _)
fnmatch(name, pat) ==
    IF pat = << >> THEN name = << >>
    ELSE IF Head(pat) = "*"
    THEN fnmatch(name, Tail(pat)) \/ (name # << >> /\ fnmatch(Tail(name), pat))
    ELSE IF Head(pat) = "?"
    THEN name # << >> /\ fnmatch(Tail(name), Tail(pat))
    ELSE name # << >> /\ Head(name) = Head(pat) /\ fnmatch(Tail(name), Tail(pat))

Recursive == <<"*", "*">>

HasMagic(part) == \E i \in 1..Len(part) : part[i] \in {"*", "?"}

\* pathlib's selectors: the paths that the pattern parts select from the paths S.
\* "**" selects every directory at or below a path, a part with wildcards the
\* matching entries of a directory, a literal part that one child; a part that
\* is not the last selects directories only.
RECURSIVE Select(_, _)
Select(S, parts) ==
    IF parts = << >> THEN S
    ELSE LET part == Head(parts)
             rest == Tail(parts)
             dironly == rest # << >>
             from == {p \in S : is_dir(p)}
         IN  IF part = Recursive
             THEN Select({q \in DOMAIN fs \cup {<< >>} :
                             is_dir(q) /\ \E p \in from : IsPrefix(p, q)}, rest)
             ELSE IF HasMagic(part)
             THEN Select({q \in DOMAIN fs :
                             /\ \E p \in from : q \in Children(p)
                             /\ dironly => is_dir(q)
                             /\ fnmatch(basename(q), part)}, rest)
             ELSE Select({p \o <<part>> : p \in
                             {p \in from : IF dironly THEN is_dir(p \o <<part>>)
                                           ELSE exists(p \o <<part>>)}}, rest)

\* The order in which a set of paths is yielded (scandir's order is arbitrary).
RECURSIVE InOrder(_)
InOrder(S) ==
    IF S = {} THEN << >>
    ELSE LET p == CHOOSE q \in S : TRUE
         IN  <<p>> \o InOrder(S \ {p})

\* Path.glob(pattern): [value |-> the paths yielded] or [raised |-> class, detail |-> str(e)]
glob(directory, pattern) ==
    IF pattern = << >>
    THEN [raised |-> "ValueError", detail |-> <<"Unacceptable pattern: ''">>]
    ELSE IF Head(pattern) = << >>
    THEN [raised |-> "NotImplementedError",
          detail |-> <<"Non-relative patterns are unsupported">>]
    ELSE [value |-> InOrder(Select({directory}, pattern))]

\* Path.stat(): raises FileNotFoundError for a missing path.
stat(p) ==
    IF p \in DOMAIN fs
    THEN [value |-> [st_size |-> fs[p].size, st_mtime |-> fs[p].mtime]]
    ELSE [raised |-> "FileNotFoundError",
          detail |-> <<"[Errno 2] No such file or directory: ", p>>]

\* datetime.fromtimestamp(t).isoformat()
isoformat(t) == [iso |-> t]

\* A removal (of a file, or of a directory with all below it) by another process.
Remove ==
    /\ \E p \in DOMAIN fs :
        fs' = [q \in {q \in DOMAIN fs : ~IsPrefix(p, q)} |-> fs[q]]
    /\ UNCHANGED <<pc, tool, request, response, pending, files, environ>>

(***************************************************************************)
(* list_files                                                              *)
(***************************************************************************)
\* The directories requested: ".", a directory, a file, a nested directory,
\* a FIFO, and a path that never exists.
Directories == {<< >>, <<B>>, <<A>>, <<B, AB>>, <<B, B>>, <<AB>>}

\* The patterns requested: "*" (the default), "a*", "?", "a?", "a", "**", "*/*",
\* "ab/a", "**/a", "" and "/a".
Patterns ==
    { <<<<"*">>>>, <<<<"a", "*">>>>, <<<<"?">>>>, <<<<"a", "?">>>>, <<A>>, <<Recursive>>,
      <<<<"*">>, <<"*">>>>, <<AB, A>>, <<Recursive, A>>, << >>, <<<< >>, A>> }

FileListRequests == [directory : Directories, pattern : Patterns]

DoesNotExist(req) ==
    [error |-> <<"Directory does not exist: ", req.directory>>,
     directory |-> req.directory]

NotADirectory(req) ==
    [error |-> <<"Path is not a directory: ", req.directory>>,
     directory |-> req.directory]

\* An entry of a regular file without its size.
FileEntryNoSize(p, st) ==
    [name |-> basename(p), path |-> p,
     modified |-> isoformat(st.st_mtime), is_file |-> TRUE]

\* The entry appended for a regular file.
FileEntry(p, st) ==
    [name |-> basename(p), path |-> p, size |-> st.st_size,
     modified |-> isoformat(st.st_mtime), is_file |-> TRUE]

\* The entry appended for a directory.
DirEntry(p) == [name |-> basename(p), path |-> p, is_file |-> FALSE]

ListFilesSuccess(req, fl) ==
    [directory |-> req.directory, pattern |-> req.pattern,
     files |-> fl, count |-> Len(fl)]

\* A handler that answers with what was listed before the failure.
ListFilesErrorPartial(req, detail) ==
    [error |-> <<"File listing error: ", detail>>,
     directory |-> req.directory, pattern |-> req.pattern,
     files |-> files, count |-> Len(files)]

\* The payload of the except clause of list_files.
ListFilesError(req, detail) ==
    [error |-> <<"File listing error: ", detail>>,
     directory |-> req.directory, pattern |-> req.pattern]

\* A handler for filesystem errors only (except OSError).
CatchesOSError(class) == class \in {"OSError", "FileNotFoundError", "PermissionError"}

\* except Exception: every exception class raised here derives from Exception.
Catches(class) == TRUE

\* return payload: the invocation ends and its locals go.
Return(payload) ==
    /\ response' = payload
    /\ pc' = "done"
    /\ pending' = << >>
    /\ files' = << >>
    /\ UNCHANGED <<tool, request, fs, environ>>

\* An exception raised inside the try block of list_files.
Raise(exc) ==
    IF Catches(exc.raised)
    THEN Return(ListFilesError(request, exc.detail))
    ELSE /\ pc' = "escaped"
         /\ pending' = << >>
         /\ files' = << >>
         /\ UNCHANGED <<tool, request, response, fs, environ>>

ListFiles ==
    /\ pc = "idle"
    /\ \E req \in FileListRequests : request' = req
    /\ tool' = "list_files"
    /\ pc' = "exists"
    /\ UNCHANGED <<response, pending, files, fs, environ>>

\* if not directory.exists(): return {...}
CheckExists ==
    /\ pc = "exists"
    /\ IF ~exists(request.directory)
       THEN Return(DoesNotExist(request))
       ELSE /\ pc' = "is_dir"
            /\ UNCHANGED <<tool, request, response, pending, files, fs, environ>>

\* if not directory.is_dir(): return {...}
CheckIsDir ==
    /\ pc = "is_dir"
    /\ IF ~is_dir(request.directory)
       THEN Return(NotADirectory(request))
       ELSE /\ pc' = "glob"
            /\ UNCHANGED <<tool, request, response, pending, files, fs, environ>>

\* files = []; for file_path in directory.glob(request.pattern):
Glob ==
    /\ pc = "glob"
    /\ LET g == glob(request.directory, request.pattern)
       IN  IF "raised" \in DOMAIN g
           THEN Raise(g)
           ELSE /\ pending' = g.value
                /\ files' = << >>
                /\ pc' = "loop"
                /\ UNCHANGED <<tool, request, response, fs, environ>>

\* The head of the loop: the next path, or the return after the last one;
\* if file_path.is_file():
LoopIsFile ==
    /\ pc = "loop"
    /\ IF pending = << >>
       THEN Return(ListFilesSuccess(request, files))
       ELSE /\ pc' = IF is_file(Head(pending)) THEN "stat" ELSE "entry_is_dir"
            /\ UNCHANGED <<tool, request, response, pending, files, fs, environ>>

\* stat = file_path.stat(); files.append({...})
StatFile ==
    /\ pc = "stat"
    /\ LET st == stat(Head(pending))
       IN  IF "raised" \in DOMAIN st
           THEN Raise(st)
           ELSE /\ files' = Append(files, FileEntry(Head(pending), st.value))
                /\ pending' = Tail(pending)
                /\ pc' = "loop"
                /\ UNCHANGED <<tool, request, response, fs, environ>>

\* elif file_path.is_dir(): files.append({...})
EntryIsDir ==
    /\ pc = "entry_is_dir"
    /\ files' = IF is_dir(Head(pending))
                THEN Append(files, DirEntry(Head(pending)))
                ELSE files
    /\ pending' = Tail(pending)
    /\ pc' = "loop"
    /\ UNCHANGED <<tool, request, response, fs, environ>>

(***************************************************************************)
(* The host framework: it serialises what the tool returned (or reports   *)
(* the exception that escaped it) and is ready for the next call.          *)
(***************************************************************************)
Deliver ==
    /\ pc \in {"done", "escaped"}
    /\ pc' = "idle"
    /\ tool' = "none"
    /\ request' = NoRequest
    /\ response' = NoResponse
    /\ UNCHANGED <<pending, files, fs, environ>>

\* The filesystem changes between two invocations only.
RemoveWhenIdle == pc = "idle" /\ Remove

Init ==
    /\ pc = "idle"
    /\ tool = "none"
    /\ request = NoRequest
    /\ response = NoResponse
    /\ pending = << >>
    /\ files = << >>
    /\ fs = InitialTree
    /\ environ \in Environments

Step ==
    \/ Calculator
    \/ SystemInfo
    \/ ListFiles
    \/ CheckExists
    \/ CheckIsDir
    \/ Glob
    \/ LoopIsFile
    \/ StatFile
    \/ EntryIsDir
    \/ Deliver

\* The server alone with its filesystem during an invocation.
Next == Step \/ RemoveWhenIdle

Spec == Init /\ [][Next]_vars

\* Other processes change the filesystem at any moment.
NextConcurrent == Step \/ Remove

SpecConcurrent == Init /\ [][NextConcurrent]_vars

(***************************************************************************)
(* The properties checked.                                                 *)
(***************************************************************************)
Done(t) == pc = "done" /\ tool = t

Supported == {"add", "subtract", "multiply", "divide"}

\* r is the rational x / y (y # 0), whatever its representation.
IsQuotient(r, x, y) == r.d # 0 /\ r.n * y = x * r.d

\* C1: for an operation among add, subtract, multiply and divide (with b # 0 when
\* dividing), calculator returns exactly a result, the operation and the inputs
\* as given, and the result is a+b, a-b, a*b or a/b; add, 2, 3 gives 5.
C1_CalculatorSuccess ==
    (/\ Done("calculator")
     /\ request.operation \in Supported
     /\ ~(request.operation = "divide" /\ request.b.n = 0))
    => LET a == request.a
           b == request.b
           op == request.operation
       IN  /\ DOMAIN response = {"result", "operation", "inputs"}
           /\ response.operation = op
           /\ response.inputs = [a |-> a, b |-> b]
           /\ op = "add" =>
                IsQuotient(response.result, a.n * b.d + b.n * a.d, a.d * b.d)
           /\ op = "subtract" =>
                IsQuotient(response.result, a.n * b.d - b.n * a.d, a.d * b.d)
           /\ op = "multiply" =>
                IsQuotient(response.result, a.n * b.n, a.d * b.d)
           /\ op = "divide" =>
                IsQuotient(response.result, a.n * b.d, a.d * b.n)
           /\ (op = "add" /\ a = [n |-> 2, d |-> 1] /\ b = [n |-> 3, d |-> 1])
                => response.result = [n |-> 5, d |-> 1]

\* C1's case: 3/2 - 1/2 has been computed, and it is 1.
C1_Witness ==
    /\ Done("calculator")
    /\ request = [operation |-> "subtract", a |-> [n |-> 3, d |-> 2],
                  b |-> [n |-> 1, d |-> 2]]
    /\ response.result = [n |-> 1, d |-> 1]

\* C2: dividing by b = 0 returns exactly the message "Division by zero is not
\* allowed" with the operation and the inputs a and b, and no result; the
\* division is not attempted (no ZeroDivisionError reaches the except clause).
C2_DivisionByZero ==
    (Done("calculator") /\ request.operation = "divide" /\ request.b.n = 0)
    => response = [error |-> <<"Division by zero is not allowed">>,
                   operation |-> "divide",
                   inputs |-> [a |-> request.a, b |-> request.b]]

\* C2's case: 1 / 0 has been answered.
C2_Witness ==
    /\ Done("calculator")
    /\ request = [operation |-> "divide", a |-> [n |-> 1, d |-> 1],
                  b |-> [n |-> 0, d |-> 1]]
    /\ "error" \in DOMAIN response

\* C3: an operation that is not exactly add, subtract, multiply or divide is
\* answered, whatever a and b, with exactly "Unknown operation: <op>" and the
\* list of the supported operations, and no result.
C3_UnknownOperation ==
    (Done("calculator") /\ request.operation \notin Supported)
    => response = [error |-> <<"Unknown operation: ", request.operation>>,
                   supported_operations |->
                       <<"add", "subtract", "multiply", "divide">>]

\* C3's case: mod, 1, 2 has been answered; so has an operation that differs
\* from a supported one by case only.
C3_Witness ==
    /\ Done("calculator")
    /\ request.operation \in {"mod", "ADD"}
    /\ request.a = [n |-> 1, d |-> 1]
    /\ request.b = [n |-> 2, d |-> 1]
    /\ "error" \in DOMAIN response

AllowList == {"PATH", "HOME", "USER", "SHELL", "LANG", "PWD"}

\* C6: the environment_variables that system_info returns hold allow-listed
\* variables only; an allow-listed variable is there exactly when the
\* environment sets it, with the environment's value.
C6_EnvironmentAllowList ==
    Done("system_info")
    => LET ev == response.environment_variables
       IN  /\ DOMAIN ev \subseteq AllowList
           /\ \A v \in AllowList : v \in DOMAIN ev <=> v \in DOMAIN environ
           /\ \A v \in DOMAIN ev : ev[v] = environ[v]

\* C6's case: the environment holds a secret, an allow-listed variable that
\* is returned and lacks another allow-listed one.
C6_Witness ==
    /\ Done("system_info")
    /\ "API_KEY" \in DOMAIN environ
    /\ "USER" \notin DOMAIN environ
    /\ "PATH" \in DOMAIN response.environment_variables

IsError(r) == "error" \in DOMAIN r

Messages ==
    {"Division by zero is not allowed", "Unknown operation: ", "Calculation error: ",
     "Directory does not exist: ", "Path is not a directory: ", "File listing error: "}

\* C4 as stated: every Error payload carries a message and all the inputs of
\* its invocation (calculator: operation, a and b; list_files: directory and
\* pattern). The unknown-operation and the nonexistent or non-directory path
\* payloads do not.
C4_ErrorsEchoAllInputs ==
    (pc = "done" /\ IsError(response))
    => /\ response.error[1] \in Messages
       /\ tool = "calculator" =>
            /\ {"operation", "inputs"} \subseteq DOMAIN response
            /\ response.operation = request.operation
            /\ response.inputs = [a |-> request.a, b |-> request.b]
       /\ tool = "list_files" =>
            /\ {"directory", "pattern"} \subseteq DOMAIN response
            /\ response.directory = request.directory
            /\ response.pattern = request.pattern

\* C4 amended: every Error payload carries a message; which inputs it echoes
\* depends on the error. Division by zero (and an unexpected failure of
\* calculator) echoes operation, a and b; an unknown operation is named in the
\* message only, with the supported operations and without a and b; a
\* nonexistent or non-directory path echoes the directory and not the pattern;
\* a failure while listing echoes directory and pattern.
C4_ErrorsEchoSomeInputs ==
    (pc = "done" /\ IsError(response))
    => LET msg == response.error[1]
       IN  /\ msg \in Messages
           /\ tool = "calculator" =>
                /\ msg \in {"Division by zero is not allowed", "Unknown operation: ",
                            "Calculation error: "}
                /\ msg = "Unknown operation: " =>
                     /\ DOMAIN response = {"error", "supported_operations"}
                     /\ response.error[2] = request.operation
                /\ msg # "Unknown operation: " =>
                     /\ DOMAIN response = {"error", "operation", "inputs"}
                     /\ response.operation = request.operation
                     /\ response.inputs = [a |-> request.a, b |-> request.b]
           /\ tool = "list_files" =>
                /\ msg \in {"Directory does not exist: ", "Path is not a directory: ",
                            "File listing error: "}
                /\ response.directory = request.directory
                /\ msg # "File listing error: " =>
                     /\ DOMAIN response = {"error", "directory"}
                     /\ response.error[2] = request.directory
                /\ msg = "File listing error: " =>
                     /\ DOMAIN response = {"error", "directory", "pattern"}
                     /\ response.pattern = request.pattern

\* C4's case: an Error payload has been returned that names the unknown
\* operation and echoes neither a nor b.
C4_Witness ==
    /\ Done("calculator")
    /\ IsError(response)
    /\ response.error = <<"Unknown operation: ", "mod">>
    /\ "inputs" \notin DOMAIN response

\* C5: no exception escapes calculator or list_files, an invocation under way
\* can always take its next step, and what an invocation returns is either a
\* Success payload (result; files and count) or an Error payload (error),
\* never both and never neither.
C5_ExactlyOneVariant ==
    /\ pc # "escaped"
    /\ pc # "idle" => ENABLED Step
    /\ Done("calculator") =>
         ("result" \in DOMAIN response) # ("error" \in DOMAIN response)
    /\ Done("list_files") =>
         /\ ("files" \in DOMAIN response) # ("error" \in DOMAIN response)
         /\ ("files" \in DOMAIN response) <=> ("count" \in DOMAIN response)

\* C5's case: an exception raised in list_files (by glob, for a pattern it
\* rejects) has been turned into an Error payload.
C5_Witness ==
    /\ Done("list_files")
    /\ IsError(response)
    /\ response.error = <<"File listing error: ", <<"Unacceptable pattern: ''">>>>

\* C7: a path that does not exist is answered with exactly "Directory does not
\* exist: <path>" and the path, a path that exists and is no directory with
\* exactly "Path is not a directory: <path>" and the path; nothing is listed,
\* and a nonexistent path never gets the second message.
C7_PathChecks ==
    Done("list_files")
    => /\ Kind(request.directory) = "none" =>
            response = [error |-> <<"Directory does not exist: ", request.directory>>,
                        directory |-> request.directory]
       /\ Kind(request.directory) \in {"file", "other"} =>
            response = [error |-> <<"Path is not a directory: ", request.directory>>,
                        directory |-> request.directory]

\* C7's case: a nonexistent path has been answered.
C7_Witness ==
    /\ Done("list_files")
    /\ Kind(request.directory) = "none"
    /\ IsError(response)

Entries(r) == {r.files[i] : i \in 1..Len(r.files)}

ListedPaths(r) == {e.path : e \in Entries(r)}

\* C8 as stated: every entry of files, a regular file or a subdirectory,
\* carries name, path, size, modified and is_file. A subdirectory's entry
\* carries neither size nor modified.
C8_EveryEntryHasFiveFields ==
    (Done("list_files") /\ ~IsError(response))
    => \A e \in Entries(response) :
          {"name", "path", "size", "modified", "is_file"} \subseteq DOMAIN e

\* C8 amended: the entry of a regular file (is_file = true) carries exactly
\* name, path, size, modified and is_file; the entry of a subdirectory
\* (is_file = false) carries exactly name, path and is_file. While the path is
\* still there, is_file tells its kind, and size and modified are its own.
C8_EntryFieldsByKind ==
    (Done("list_files") /\ ~IsError(response))
    => \A e \in Entries(response) :
          /\ e.name = basename(e.path)
          /\ e.is_file =>
               /\ DOMAIN e = {"name", "path", "size", "modified", "is_file"}
               /\ e.path \in DOMAIN fs =>
                    /\ Kind(e.path) = "file"
                    /\ e.size = fs[e.path].size
                    /\ e.modified = [iso |-> fs[e.path].mtime]
          /\ ~e.is_file =>
               /\ DOMAIN e = {"name", "path", "is_file"}
               /\ exists(e.path) => Kind(e.path) = "dir"

\* C8's case: a listing with a regular file and a subdirectory has been returned.
C8_Witness ==
    /\ Done("list_files")
    /\ ~IsError(response)
    /\ \E e \in Entries(response) : e.is_file
    /\ \E e \in Entries(response) : ~e.is_file

\* A name matches a one-component pattern: the pattern's characters cut the
\* name into consecutive pieces, "*" taking any piece, "?" one character and
\* any other character itself.
Matches(nm, pat) ==
    \E cut \in [0..Len(pat) -> 0..Len(nm)] :
        /\ cut[0] = 0
        /\ cut[Len(pat)] = Len(nm)
        /\ \A i \in 1..Len(pat) :
              /\ cut[i - 1] <= cut[i]
              /\ pat[i] # "*" => cut[i] = cut[i - 1] + 1
              /\ pat[i] \notin {"*", "?"} => nm[cut[i]] = pat[i]

\* A name (which holds no "/") matches a whole pattern only if the pattern is
\* one component.
NameMatches(nm, pattern) == Len(pattern) = 1 /\ Matches(nm, pattern[1])

\* C9 as stated: for an existing directory and any pattern, files holds exactly
\* the direct entries of the directory whose names match the pattern, count is
\* the number of entries, and directory and pattern are echoed. Entries that
\* are neither regular files nor directories are left out, and a pattern of
\* several components or "**" lists other paths than direct entries.
C9_ExactlyTheDirectMatches ==
    (Done("list_files") /\ ~IsError(response))
    => /\ ListedPaths(response) =
            {q \in Children(request.directory) :
                NameMatches(basename(q), request.pattern)}
       /\ response.count = Len(response.files)
       /\ response.directory = request.directory
       /\ response.pattern = request.pattern

\* C9 amended: count is the number of entries, no path is listed twice, and
\* directory and pattern are echoed; for a pattern of one component other than
\* "**", files holds exactly the direct entries of the directory whose names
\* match it and that are regular files or directories (provided the
\* filesystem does not change during the invocation).
C9_DirectMatchesOfOneComponent ==
    (Done("list_files") /\ ~IsError(response))
    => /\ DOMAIN response = {"directory", "pattern", "files", "count"}
       /\ response.count = Len(response.files)
       /\ Cardinality(ListedPaths(response)) = Len(response.files)
       /\ response.directory = request.directory
       /\ response.pattern = request.pattern
       /\ (Len(request.pattern) = 1 /\ request.pattern[1] # <<"*", "*">>) =>
            ListedPaths(response) =
                {q \in Children(request.directory) :
                    /\ Matches(basename(q), request.pattern[1])
                    /\ Kind(q) \in {"file", "dir"}}

\* C9's case: b has been listed with the default pattern "*": its file and its
\* subdirectory are listed, its FIFO is not.
C9_Witness ==
    /\ Done("list_files")
    /\ request = [directory |-> <<B>>, pattern |-> <<<<"*">>>>]
    /\ Kind(<<B, B>>) = "other"
    /\ ~IsError(response)
    /\ response.count = 2

\* The next step of list_files reads a path that another process has removed
\* since the checks: the directory at glob, an entry at is_file(), is_dir() or
\* stat().
ReadsRemoved ==
    \/ pc = "glob" /\ ~exists(request.directory)
    \/ pc \in {"loop", "entry_is_dir", "stat"}
         /\ pending # << >> /\ ~exists(Head(pending))

\* The next step of list_files raises: stat() of an entry removed after
\* is_file() found it, or glob rejecting the pattern.
StepRaises ==
    \/ pc = "stat" /\ ~exists(Head(pending))
    \/ pc = "glob" /\ "raised" \in DOMAIN glob(request.directory, request.pattern)

\* C10 as stated: when the directory or a matched entry is removed after the
\* checks, before the glob or the stat of the entry, the invocation returns an
\* Error payload. pathlib absorbs a missing directory at glob and a missing
\* entry at is_file() and is_dir(): the invocation goes on to a Success payload.
C10_RemovalGivesError ==
    [][(ReadsRemoved /\ pc' # pc) => (pc' = "done" /\ IsError(response'))]_vars

\* C10 amended: when a call made after the checks raises (stat() of an entry
\* removed after is_file() found it, glob rejecting the pattern), the
\* invocation returns exactly the Error payload "File listing error: <detail>"
\* with directory and pattern, without files and without count, whatever was
\* listed before, and the exception does not escape. A removal that pathlib
\* absorbs is no error: glob of a removed directory yields nothing, and an
\* entry removed before is_file() or is_dir() is skipped.
C10_FailureGivesErrorOnly ==
    [][pc' # pc =>
        /\ StepRaises =>
             /\ pc' = "done"
             /\ DOMAIN response' = {"error", "directory", "pattern"}
             /\ response'.error[1] = "File listing error: "
             /\ response'.directory = request.directory
             /\ response'.pattern = request.pattern
        /\ (pc = "stat" /\ ~exists(Head(pending))) =>
             response'.error[2] =
                 <<"[Errno 2] No such file or directory: ", Head(pending)>>
        /\ (ReadsRemoved /\ ~StepRaises) =>
             /\ pc' \in {"loop", "entry_is_dir"}
             /\ files' = files
             /\ pc = "glob" => pending' = << >>
             /\ pc = "entry_is_dir" => pending' = Tail(pending)]_vars

\* C10's case: the failure of stat() on a removed entry has been answered.
C10_Witness ==
    /\ Done("list_files")
    /\ IsError(response)
    /\ response.error[1] = "File listing error: "
    /\ response.error[2][1] = "[Errno 2] No such file or directory: "

====
